---- MODULE Spec2Model ----
\* JWP Editor (src/main.py): several browser sessions view and partially edit
\* the rows of the "Master Data" sheet of one shared spreadsheet, filtered by
\* agency; save_edits writes the editable cells back cell by cell and then
\* appends one row per written table row to the "Audit Log" sheet.
EXTENDS Integers, Sequences, FiniteSets, TLC

\* ------------------------------------------------------------------ bounds

NumRows == 3          \* data rows of the Master Data sheet (header excluded)
SharedRows == 2       \* data rows of the sheet the sessions share
CacheRows == 1        \* data rows of the sheet in the cache scenario
ScenarioRows == 4     \* data rows of the sheet in the one-session scenario
NumSessions == 2      \* browser sessions connected to the app
MaxEdits == 1         \* cells a session changes between a load and a save
MaxSaves == 1         \* presses of "Save Updates" per session
MaxTicks == 1         \* sub-second clock advances
MaxWaits == 1         \* long waits (one cache lifetime each)
TicksPerSecond == 2   \* clock resolution; timestamps are printed in seconds

\* ------------------------------------------------- constants of the program

TTL == 300            \* st.cache_data(ttl=300), seconds
EndDateCol == 5
SpendingCol == 6
ProgressCol == 7
HeaderRows == 1       \* the sheet's first row is the header (data[0])

Sessions == 1..NumSessions
AgencyOptions == {"UNDP", "WFP"}           \* two of the selectbox's options
ADMIN_PASSWORD == "admin123"
Columns == <<"Outcome", "SubOutput", "Agency", "Activity",
             "EndDate", "Spending", "Progress", "LastUpdated">>
ColumnSet == {Columns[i] : i \in 1..Len(Columns)}
LockedColumns == {"Outcome", "SubOutput", "Agency", "Activity"}
EditableColumns == {"EndDate", "Spending", "Progress"}
NaT == -1                                   \* missing timestamp / blank cell

\* columns.get_loc(name): 0-based position of a column of the frame
get_loc(name) == (CHOOSE i \in 1..Len(Columns) : Columns[i] = name) - 1

\* --------------------------------------------------------- type conversions

IsoDates == {"2025-12-31", "2026-06-30"}
IntLits == {"100", "250"}
FloatLits == {"100.0", "250.5"}

\* pd.to_datetime(cell, errors='coerce'): parsable text becomes a date,
\* anything else (blank, free text) becomes NaT
to_datetime(cell) ==
    CASE cell \in IsoDates -> cell
      [] cell = "Dec 31 2025" -> "2025-12-31"
      [] OTHER -> "NaT"

\* pd.to_numeric(column, errors='coerce'): int64 when every cell is an integer
\* literal, float64 otherwise; unparsable cells become NaN. The value is
\* represented by what str() prints for it.
to_numeric(cell, allInt) ==
    CASE cell \in IntLits /\ allInt -> cell
      [] cell = "100" -> "100.0"
      [] cell = "250" -> "250.0"
      [] cell \in FloatLits -> cell
      [] OTHER -> "nan"

\* to_datetime of the Last Updated column: a printed timestamp (whole seconds)
\* or NaT
to_timestamp(cell) == IF cell >= 0 THEN cell ELSE NaT

\* row['End date'].strftime('%Y-%m-%d') if pd.notnull(...) else ''
FmtEndDate(v) == IF v = "NaT" THEN "" ELSE v

\* str(row['Spending ...']) if pd.notnull(...) else ''
FmtSpending(v) == IF v = "nan" THEN "" ELSE v

\* now.strftime('%Y-%m-%d %H:%M:%S'): the sub-second part is dropped
strftime(t) == t \div TicksPerSecond

\* ------------------------------------------------------------------- state

VARIABLES
    master,        \* Master Data sheet: sequence of rows of cells, header excluded
    audit,         \* Audit Log sheet: sequence of appended rows
    clock,         \* wall clock, in ticks
    ticks,         \* clock advances taken: [small, long]
    cache,         \* st.cache_data entry of load_data()
    auditCache,    \* st.cache_data entry of load_audit_log()
    logged_in,     \* st.session_state.logged_in, per session
    is_admin,      \* st.session_state.is_admin, per session
    user,          \* st.session_state.user, per session
    pc,            \* where each session's script is
    df,            \* the table load_data() returned to the session
    agency_df,     \* the session's filtered snapshot
    edited_df,     \* what st.data_editor returned
    call,          \* locals of the running save_edits call: now, updates, pos, k
    err,           \* the exception that ended the session's last script run
    nEdits,        \* cells changed since the last load
    nSaves,        \* save_edits calls started
    writes,        \* update_cell calls the session's current call has made
    appended,      \* audit rows the session's current call has appended
    storeVersion,  \* number of cell writes the Master Data sheet has taken
    loadedVersion, \* storeVersion of the table the session last loaded
    savedVersion,  \* storeVersion after the last write of the session's last
                   \* successful save
    staleRead,     \* the session's last load: was it stale, was the entry expired
    lastWriter     \* per data row and column, the session that wrote it last

vars == <<master, audit, clock, ticks, cache, auditCache,
          logged_in, is_admin, user, pc, df, agency_df, edited_df, call, err,
          nEdits, nSaves, writes, appended, storeVersion,
          loadedVersion, savedVersion, staleRead, lastWriter>>

storeVars == <<master, audit>>
clockVars == <<clock, ticks>>
cacheVars == <<cache, auditCache>>
identVars == <<logged_in, is_admin, user>>
frameVars == <<df, agency_df, edited_df>>
ghostVars == <<writes, appended, storeVersion, loadedVersion,
               savedVersion, staleRead, lastWriter>>

NoCache == [valid |-> FALSE, df |-> <<>>, time |-> 0, version |-> 0]
NoAuditCache == [valid |-> FALSE, log |-> <<>>, time |-> 0]
NoUser == [name |-> "", email |-> "", agency |-> ""]
NoCall == [now |-> 0, updates |-> <<>>, pos |-> 1, k |-> 1]

\* every row of the sheet describes another activity
ActivityNames == <<"A0", "A1", "A2", "A3", "A4", "A5", "A6">>

\* a row of the sheet as the spreadsheet holds it (cells)
SheetRow(i, agency, endDate, spending) ==
    [Outcome |-> "O1", SubOutput |-> "S1", Agency |-> agency,
     Activity |-> ActivityNames[i + 1],
     EndDate |-> endDate, Spending |-> spending, Progress |-> "On track",
     LastUpdated |-> NaT]

\* the cell contents a sheet starts with: one End date text and one Spending
\* text per table
CellProfiles == { <<"2025-12-31", "100">>, <<"Dec 31 2025", "n/a">> }
OneProfile == { <<"Dec 31 2025", "100">> }

\* the state before the first script run, for a sheet of n rows and the set
\* of connected sessions; the agencies are interchangeable, so the first row's
\* is fixed
InitWith(n, open, profiles) ==
    /\ \E ag \in [1..n -> AgencyOptions] : \E p \in profiles :
         /\ ag[1] = "UNDP"
         /\ master = [i \in 1..n |-> SheetRow(i - 1, ag[i], p[1], p[2])]
    /\ audit = <<>>
    /\ clock = 1
    /\ ticks = [small |-> 0, long |-> 0]
    /\ cache = NoCache
    /\ auditCache = NoAuditCache
    /\ logged_in = [s \in Sessions |-> FALSE]
    /\ is_admin = [s \in Sessions |-> FALSE]
    /\ user = [s \in Sessions |-> NoUser]
    /\ pc = [s \in Sessions |-> IF s \in open THEN "login" ELSE "closed"]
    /\ df = [s \in Sessions |-> <<>>]
    /\ agency_df = [s \in Sessions |-> <<>>]
    /\ edited_df = [s \in Sessions |-> <<>>]
    /\ call = [s \in Sessions |-> NoCall]
    /\ err = [s \in Sessions |-> "none"]
    /\ nEdits = [s \in Sessions |-> 0]
    /\ nSaves = [s \in Sessions |-> 0]
    /\ writes = [s \in Sessions |-> <<>>]
    /\ appended = [s \in Sessions |-> <<>>]
    /\ storeVersion = 0
    /\ loadedVersion = [s \in Sessions |-> 0]
    /\ savedVersion = [s \in Sessions |-> 0]
    /\ staleRead = [s \in Sessions |-> [stale |-> FALSE, expired |-> FALSE]]
    /\ lastWriter = [i \in 1..n |-> [c \in 1..Len(Columns) |-> 0]]


\* ------------------------------------------------------------ load_data

\* whether pd.to_numeric gives the Spending column an integer dtype
AllInt(m) == \A i \in 1..Len(m) : m[i].Spending \in IntLits

\* pd.DataFrame(data[1:], columns=data[0]) followed by the three coercions;
\* the frame's index is the row's position in the sheet, header excluded
Typed(m) ==
    [i \in 1..Len(m) |->
        [idx |-> i - 1,
         Outcome |-> m[i].Outcome, SubOutput |-> m[i].SubOutput,
         Agency |-> m[i].Agency, Activity |-> m[i].Activity,
         EndDate |-> to_datetime(m[i].EndDate),
         Spending |-> to_numeric(m[i].Spending, AllInt(m)),
         Progress |-> m[i].Progress,
         LastUpdated |-> to_timestamp(m[i].LastUpdated)]]

\* st.cache_data(ttl=300): an entry serves calls younger than the ttl
CacheHit(entry, t) == entry.valid /\ t - entry.time < TTL * TicksPerSecond

\* load_data(): the cached entry on a hit, else a fresh read of the sheet
load_data(entry, m, t, v) ==
    IF CacheHit(entry, t) THEN entry
    ELSE [valid |-> TRUE, df |-> Typed(m), time |-> t, version |-> v]

\* load_audit_log(): the sheet's rows, or an empty frame when it is missing
load_audit_log(entry, exists, log, t) ==
    IF entry.valid /\ t - entry.time < TTL * TicksPerSecond THEN entry
    ELSE [valid |-> TRUE, log |-> IF exists THEN log ELSE <<>>, time |-> t]

\* the cache left as it is
cache_keep(entry) == entry

\* st.cache_data.clear()
cache_clear(entry) == NoCache

\* the filter followed by reset_index: the rows renumbered from 0
FilterAgencyReset(d, agency) ==
    LET kept == SelectSeq(d, LAMBDA r : r.Agency = agency)
    IN [k \in 1..Len(kept) |-> [kept[k] EXCEPT !.idx = k - 1]]

\* no filter: every row of the table
FilterNone(d, agency) == d

\* df[df['Agency'] == user['agency']].copy(): the matching rows, each keeping
\* its index label
FilterAgency(d, agency) == SelectSeq(d, LAMBDA r : r.Agency = agency)

\* ------------------------------------------------------------ the script

Idle == {"main", "editor", "warning", "saved", "error"}

\* the login form: the session logs in when name, email and agency are given
Login(s, name, email, agency) ==
    /\ pc[s] = "login"
    /\ ~logged_in[s]
    /\ name # "" /\ email # "" /\ agency # ""
    /\ logged_in' = [logged_in EXCEPT ![s] = TRUE]
    /\ user' = [user EXCEPT ![s] = [name |-> name, email |-> email, agency |-> agency]]
    /\ pc' = [pc EXCEPT ![s] = "main"]
    /\ UNCHANGED <<storeVars, clockVars, cacheVars, is_admin, frameVars, call,
                   err, nEdits, nSaves, ghostVars>>

\* one run of the main app: load, filter, show the warning or the editor
Run(s) ==
    /\ logged_in[s]
    /\ pc[s] \in Idle
    /\ LET entry == load_data(cache, master, clock, storeVersion)
           mine == FilterAgency(entry.df, user[s].agency)
       IN /\ cache' = entry
          /\ df' = [df EXCEPT ![s] = entry.df]
          /\ agency_df' = [agency_df EXCEPT ![s] = mine]
          /\ edited_df' = [edited_df EXCEPT ![s] = mine]
          /\ pc' = [pc EXCEPT ![s] = IF mine = <<>> THEN "warning" ELSE "editor"]
          /\ loadedVersion' = [loadedVersion EXCEPT ![s] = entry.version]
          /\ staleRead' = [staleRead EXCEPT ![s] =
                 [stale |-> entry.version < storeVersion,
                  expired |-> clock - entry.time >= TTL * TicksPerSecond]]
    /\ nEdits' = [nEdits EXCEPT ![s] = 0]
    /\ err' = [err EXCEPT ![s] = "none"]
    /\ UNCHANGED <<storeVars, clockVars, auditCache, identVars, call, nSaves,
                   writes, appended, storeVersion, savedVersion, lastWriter>>

\* the values the data editor offers for an editable column
EditValues(col, d) ==
    CASE col = "EndDate" -> {"2026-06-30", "NaT"}
      [] col = "Spending" ->
            IF \A i \in 1..Len(d) : d[i].Spending \in IntLits
            THEN {"250"} ELSE {"250.5", "nan"}
      [] col = "Progress" -> {"Delayed"}

\* values a forged editor reply may carry in a locked column
TamperValues(col) ==
    CASE col = "Outcome" -> {"O2"}
      [] col = "SubOutput" -> {"S2"}
      [] col = "Agency" -> AgencyOptions
      [] col = "Activity" -> {"A9"}

\* st.data_editor: the user changes one cell of an editable column
Edit(s, k, col, val) ==
    /\ pc[s] = "editor"
    /\ nEdits[s] < MaxEdits
    /\ nSaves[s] < MaxSaves
    /\ k \in 1..Len(edited_df[s])
    /\ col \in EditableColumns
    /\ val \in EditValues(col, df[s])
    /\ edited_df[s][k][col] # val
    /\ edited_df' = [edited_df EXCEPT ![s][k][col] = val]
    /\ nEdits' = [nEdits EXCEPT ![s] = @ + 1]
    /\ UNCHANGED <<storeVars, clockVars, cacheVars, identVars, pc, df,
                   agency_df, call, err, nSaves, ghostVars>>

\* the edited copy reaches save_edits with a locked column changed (the
\* columns are disabled in the page only)
Tamper(s, k, col, val) ==
    /\ pc[s] = "editor"
    /\ nEdits[s] < MaxEdits
    /\ nSaves[s] < MaxSaves
    /\ k \in 1..Len(edited_df[s])
    /\ col \in LockedColumns
    /\ val \in TamperValues(col)
    /\ edited_df[s][k][col] # val
    /\ edited_df' = [edited_df EXCEPT ![s][k][col] = val]
    /\ nEdits' = [nEdits EXCEPT ![s] = @ + 1]
    /\ UNCHANGED <<storeVars, clockVars, cacheVars, identVars, pc, df,
                   agency_df, call, err, nSaves, ghostVars>>

\* ------------------------------------------------------------ save_edits

\* the header row forgotten
ordinalToSheetRow1(idx) == idx + 1

\* the sheet row save_edits addresses for index label idx: idx + 2 (one for
\* the header, one for 1-based rows)
ordinalToSheetRow(idx) == idx + 2

\* update_cell with the column taken 0-based
update_cell_0based(m, row, col, val) ==
    [m EXCEPT ![row - HeaderRows][Columns[col - 1]] = val]

\* sheet.update_cell(row, col, value) on the Master Data sheet
update_cell(m, row, col, val) ==
    [m EXCEPT ![row - HeaderRows][Columns[col]] = val]

\* insert_row(record, 1): the record goes to the top of the sheet
insert_row_first(log, rec) == <<rec>> \o log

\* audit_sheet.append_row(record)
append_row(log, rec) == Append(log, rec)

\* original_df.iloc[i]: the row at POSITION i of the filtered snapshot
iloc(d, i) == d[i + 1]

\* row.equals(orig_row): every column holds the same value (NaN equals NaN)
RowEquals(r, o) == \A c \in ColumnSet : r[c] = o[c]

\* the row the loop of save_edits is at
CurRow(s) == edited_df[s][call[s].pos]

Raise(s, kind) ==
    /\ pc' = [pc EXCEPT ![s] = "error"]
    /\ err' = [err EXCEPT ![s] = kind]

\* one successful update_cell of session s
StoreWrite(s, row, col, val) ==
    /\ master' = update_cell(master, row, col, val)
    /\ storeVersion' = storeVersion + 1
    /\ writes' = [writes EXCEPT ![s] = Append(@, [row |-> row, col |-> col])]
    /\ lastWriter' = [lastWriter EXCEPT ![row - HeaderRows][col] = s]

\* "Save Updates" is pressed: save_edits starts on the frames of the session's
\* last run (the rerun the press triggers is served the same table) and reads
\* the clock
SaveStart(s) ==
    /\ pc[s] = "editor"
    /\ nSaves[s] < MaxSaves
    /\ nSaves' = [nSaves EXCEPT ![s] = @ + 1]
    /\ call' = [call EXCEPT ![s] = [now |-> clock, updates |-> <<>>, pos |-> 1, k |-> 1]]
    /\ pc' = [pc EXCEPT ![s] = "cmp"]
    /\ writes' = [writes EXCEPT ![s] = <<>>]
    /\ appended' = [appended EXCEPT ![s] = <<>>]
    /\ UNCHANGED <<storeVars, clockVars, cacheVars, identVars, frameVars, err,
                   nEdits, storeVersion, loadedVersion, savedVersion,
                   staleRead, lastWriter>>

\* the head of the loop: fetch original_df.iloc[idx] and compare
Compare(s) ==
    /\ pc[s] = "cmp"
    /\ IF call[s].pos > Len(edited_df[s])
       THEN /\ pc' = [pc EXCEPT ![s] = "open_audit"]
            /\ UNCHANGED <<call, err>>
       ELSE LET idx == CurRow(s).idx IN
            IF idx >= Len(agency_df[s])
            THEN /\ Raise(s, "IndexError")
                 /\ UNCHANGED call
            ELSE IF RowEquals(CurRow(s), iloc(agency_df[s], idx))
                 THEN /\ call' = [call EXCEPT ![s].pos = @ + 1]
                      /\ UNCHANGED <<pc, err>>
                 ELSE /\ pc' = [pc EXCEPT ![s] = "w_end_date"]
                      /\ UNCHANGED <<call, err>>
    /\ UNCHANGED <<storeVars, clockVars, cacheVars, identVars, frameVars,
                   nEdits, nSaves, writes, appended, storeVersion,
                   loadedVersion, savedVersion, staleRead, lastWriter>>

WriteEndDate(s) ==
    /\ pc[s] = "w_end_date"
    /\ StoreWrite(s, ordinalToSheetRow(CurRow(s).idx), EndDateCol,
                  FmtEndDate(CurRow(s).EndDate))
    /\ pc' = [pc EXCEPT ![s] = "w_spending"]
    /\ UNCHANGED <<audit, clockVars, cacheVars, identVars,
                   frameVars, call, err, nEdits, nSaves, appended,
                   loadedVersion, savedVersion, staleRead>>

WriteSpending(s) ==
    /\ pc[s] = "w_spending"
    /\ StoreWrite(s, ordinalToSheetRow(CurRow(s).idx), SpendingCol,
                  FmtSpending(CurRow(s).Spending))
    /\ pc' = [pc EXCEPT ![s] = "w_progress"]
    /\ UNCHANGED <<audit, clockVars, cacheVars, identVars,
                   frameVars, call, err, nEdits, nSaves, appended,
                   loadedVersion, savedVersion, staleRead>>

WriteProgress(s) ==
    /\ pc[s] = "w_progress"
    /\ StoreWrite(s, ordinalToSheetRow(CurRow(s).idx), ProgressCol,
                  CurRow(s).Progress)
    /\ pc' = [pc EXCEPT ![s] = "w_last_updated"]
    /\ UNCHANGED <<audit, clockVars, cacheVars, identVars,
                   frameVars, call, err, nEdits, nSaves, appended,
                   loadedVersion, savedVersion, staleRead>>

\* the frame always has a Last Updated column (load_data creates it), so the
\* timestamp is written, and the row joins updates
WriteLastUpdated(s) ==
    /\ pc[s] = "w_last_updated"
    /\ StoreWrite(s, ordinalToSheetRow(CurRow(s).idx),
                  get_loc("LastUpdated") + 1, strftime(call[s].now))
    /\ call' = [call EXCEPT ![s].updates = Append(@, <<CurRow(s).idx, call[s].now>>),
                            ![s].pos = @ + 1]
    /\ pc' = [pc EXCEPT ![s] = "cmp"]
    /\ UNCHANGED <<audit, clockVars, cacheVars, identVars,
                   frameVars, err, nEdits, nSaves, appended,
                   loadedVersion, savedVersion, staleRead>>

\* open('JWP_Master').worksheet('Audit Log') finds the worksheet
OpenAudit(s) ==
    /\ pc[s] = "open_audit"
    /\ pc' = [pc EXCEPT ![s] = "append"]
    /\ UNCHANGED err
    /\ UNCHANGED <<storeVars, clockVars, cacheVars, identVars, frameVars, call,
                   nEdits, nSaves, writes, appended, storeVersion,
                   loadedVersion, savedVersion, staleRead, lastWriter>>

\* open('JWP_Master').worksheet('Audit Log') raises: the spreadsheet has no
\* such worksheet at that moment
AuditMissing(s) ==
    /\ pc[s] = "open_audit"
    /\ Raise(s, "WorksheetNotFound")
    /\ UNCHANGED <<storeVars, clockVars, cacheVars, identVars, frameVars, call,
                   nEdits, nSaves, writes, appended, storeVersion,
                   loadedVersion, savedVersion, staleRead, lastWriter>>

AuditRecord(s, idx, timestamp) ==
    [name |-> user[s].name, email |-> user[s].email, agency |-> user[s].agency,
     idx |-> idx, ts |-> strftime(timestamp), action |-> "Row edited"]

\* one audit_sheet.append_row of the second loop
AppendAudit(s) ==
    /\ pc[s] = "append"
    /\ call[s].k <= Len(call[s].updates)
    /\ LET u == call[s].updates[call[s].k]
           rec == AuditRecord(s, u[1], u[2])
       IN /\ audit' = append_row(audit, rec)
          /\ appended' = [appended EXCEPT ![s] = Append(@, rec)]
    /\ call' = [call EXCEPT ![s].k = @ + 1]
    /\ UNCHANGED <<master, clockVars, cacheVars, identVars,
                   frameVars, pc, err, nEdits, nSaves, writes,
                   storeVersion, loadedVersion, savedVersion, staleRead,
                   lastWriter>>

\* save_edits returns: st.success, then st.cache_data.clear()
SaveReturn(s) ==
    /\ pc[s] = "append"
    /\ call[s].k > Len(call[s].updates)
    /\ cache' = cache_clear(cache)
    /\ auditCache' = NoAuditCache
    /\ pc' = [pc EXCEPT ![s] = "saved"]
    /\ savedVersion' = [savedVersion EXCEPT ![s] =
           IF writes[s] = <<>> THEN @ ELSE storeVersion]
    /\ UNCHANGED <<storeVars, clockVars, identVars, frameVars, call, err,
                   nEdits, nSaves, writes, appended, storeVersion,
                   loadedVersion, staleRead, lastWriter>>

\* a store operation of the running call fails (APIError): the exception
\* leaves save_edits and ends the script run
StoreFail(s) ==
    /\ \/ pc[s] \in {"w_end_date", "w_spending", "w_progress", "w_last_updated"}
       \/ pc[s] = "append" /\ call[s].k <= Len(call[s].updates)
    /\ Raise(s, "APIError")
    /\ UNCHANGED <<storeVars, clockVars, cacheVars, identVars, frameVars, call,
                   nEdits, nSaves, writes, appended, storeVersion,
                   loadedVersion, savedVersion, staleRead, lastWriter>>

\* --------------------------------------------------------- admin section

\* the sidebar: with the admin password the dashboard loads the full table
\* and the audit log through their caches
AdminView(s, pw, found) ==
    /\ pc[s] \in Idle \cup {"login"}
    /\ pw = ADMIN_PASSWORD \/ is_admin[s]
    /\ is_admin' = [is_admin EXCEPT ![s] = TRUE]
    /\ cache' = load_data(cache, master, clock, storeVersion)
    /\ auditCache' = load_audit_log(auditCache, found, audit, clock)
    /\ UNCHANGED <<storeVars, clockVars, logged_in, user, pc, frameVars, call,
                   err, nEdits, nSaves, ghostVars>>

\* ------------------------------------------------------------------ time

Tick ==
    /\ ticks.small < MaxTicks
    /\ clock' = clock + 1
    /\ ticks' = [ticks EXCEPT !.small = @ + 1]
    /\ UNCHANGED <<storeVars, cacheVars, identVars, pc, frameVars, call, err,
                   nEdits, nSaves, ghostVars>>

\* one cache lifetime passes
Wait ==
    /\ ticks.long < MaxWaits
    /\ clock' = clock + TTL * TicksPerSecond
    /\ ticks' = [ticks EXCEPT !.long = @ + 1]
    /\ UNCHANGED <<storeVars, cacheVars, identVars, pc, frameVars, call, err,
                   nEdits, nSaves, ghostVars>>

\* ------------------------------------------------------------------ next

\* the steps of the sessions' scripts
Steps ==
    \/ \E s \in Sessions : \E name \in {"", "Ana"} : \E email \in {"", "ana@un.org"} :
         \E agency \in AgencyOptions : Login(s, name, email, agency)
    \/ \E s \in Sessions : Run(s)
    \/ \E s \in Sessions : \E k \in 1..Len(edited_df[s]) :
         \E col \in EditableColumns : \E val \in EditValues(col, df[s]) :
           Edit(s, k, col, val)
    \/ \E s \in Sessions : SaveStart(s)
    \/ \E s \in Sessions : Compare(s)
    \/ \E s \in Sessions : WriteEndDate(s)
    \/ \E s \in Sessions : WriteSpending(s)
    \/ \E s \in Sessions : WriteProgress(s)
    \/ \E s \in Sessions : WriteLastUpdated(s)
    \/ \E s \in Sessions : OpenAudit(s)
    \/ \E s \in Sessions : AppendAudit(s)
    \/ \E s \in Sessions : SaveReturn(s)

\* an edited copy with a locked column changed
Forged ==
    \E s \in Sessions : \E k \in 1..Len(edited_df[s]) :
      \E col \in LockedColumns : \E val \in TamperValues(col) :
        Tamper(s, k, col, val)

\* failures of the spreadsheet service
Faults ==
    \/ \E s \in Sessions : StoreFail(s)
    \/ \E s \in Sessions : AuditMissing(s)

Admin ==
    \E s \in Sessions : \E pw \in {"", ADMIN_PASSWORD} :
      \E found \in BOOLEAN : AdminView(s, pw, found)

Next == Steps \/ Forged \/ Faults \/ Admin \/ Tick \/ Wait

\* one session on a sheet of NumRows rows: every step of the app
Init == InitWith(NumRows, {1}, CellProfiles)
Spec == Init /\ [][Next]_vars

\* one session on a sheet of ScenarioRows rows, no admin, the clock standing
NextScenario == Steps \/ Forged \/ Faults
InitScenario == InitWith(ScenarioRows, {1}, CellProfiles)
SpecScenario == InitScenario /\ [][NextScenario]_vars

\* NumSessions sessions sharing a sheet of SharedRows rows and one cache, the
\* spreadsheet service not failing, the clock standing
NextShared == Steps
InitShared == InitWith(SharedRows, Sessions, OneProfile)
SpecShared == InitShared /\ [][NextShared]_vars

\* NumSessions sessions sharing a sheet of CacheRows rows and one cache while
\* cache lifetimes pass
NextCache == Steps \/ Faults \/ Wait
InitCache == InitWith(CacheRows, Sessions, OneProfile)
SpecCache == InitCache /\ [][NextCache]_vars

\* ============================================================ properties

InCall(s) == pc[s] \in {"cmp", "w_end_date", "w_spending", "w_progress",
                        "w_last_updated", "open_audit", "append"}
Ended(s) == pc[s] \in {"saved", "error"}

\* the index labels of a frame, and the row of a frame with a given label
Labels(d) == {d[k].idx : k \in 1..Len(d)}
RowAt(d, i) == d[CHOOSE k \in 1..Len(d) : d[k].idx = i]

\* the ordinals at which the edited copy differs from the snapshot row of the
\* same ordinal
Changed(s) ==
    {i \in Labels(edited_df[s]) :
        ~RowEquals(RowAt(edited_df[s], i), RowAt(agency_df[s], i))}

Range(q) == {q[k] : k \in 1..Len(q)}

\* the instant a printed timestamp denotes, in clock ticks
InstantOf(ts) == ts * TicksPerSecond

\* C1: no step changes the number of rows of the Master Data sheet or the
\* Outcome, Sub-Output, Agency or Activity cell of any row, whatever the edited
\* copies hold; every cell write of a save_edits call goes to one of the
\* columns End date, Spending, Progress, Last Updated
C1_LockedFieldsUnchanged ==
    [][ /\ Len(master') = Len(master)
        /\ \A i \in 1..Len(master) : \A c \in LockedColumns :
             master'[i][c] = master[i][c]
        /\ \A s \in Sessions : \A w \in Range(writes'[s]) :
             w.col \in {EndDateCol, SpendingCol, ProgressCol,
                        get_loc("LastUpdated") + 1} ]_vars

\* a save has returned after writing a row whose edited copy had a locked
\* column changed
C1_Witness ==
    \E s \in Sessions : \E i \in Changed(s) :
        /\ pc[s] = "saved"
        /\ \E c \in LockedColumns :
             RowAt(edited_df[s], i)[c] # RowAt(agency_df[s], i)[c]
        /\ \E w \in Range(writes[s]) : w.row = i + 2

\* C2: in and after a save_edits call, every cell write and every audit row of
\* the call is for an ordinal whose edited row differs from the snapshot row
\* of the same ordinal; so a call on an unedited copy writes and logs nothing
C2_UnchangedRowsUntouched ==
    \A s \in Sessions :
        (InCall(s) \/ Ended(s)) =>
            /\ \A w \in Range(writes[s]) : w.row - 2 \in Changed(s)
            /\ \A rec \in Range(appended[s]) : rec.idx \in Changed(s)

\* C3: when a save_edits call in which no store operation failed has ended,
\* it has appended exactly one audit row for every ordinal whose edited row
\* differs from the snapshot row of the same ordinal, and the row's timestamp
\* is not before the start of the call and not after its end
C3_OneAuditRowPerChange ==
    \A s \in Sessions :
        (Ended(s) /\ err[s] \in {"none", "IndexError"}) =>
            \A i \in Changed(s) :
                /\ Cardinality({k \in 1..Len(appended[s]) : appended[s][k].idx = i}) = 1
                /\ \A rec \in Range(appended[s]) :
                     rec.idx = i => /\ InstantOf(rec.ts) >= call[s].now
                                    /\ InstantOf(rec.ts) <= clock

\* C4: the filtered snapshot of a session holds exactly the rows of the loaded
\* table whose Agency is the session's agency, in table order, each under the
\* ordinal it has in the full table; an empty result shows the warning, and a
\* session whose result is empty never is in or after a save
C4_FilterKeepsOrdinals ==
    \A s \in Sessions :
        pc[s] \notin {"closed", "login", "main"} =>
            /\ \A i \in 1..Len(df[s]) : df[s][i].idx = i - 1
            /\ \A k \in 1..Len(agency_df[s]) :
                 /\ agency_df[s][k].Agency = user[s].agency
                 /\ agency_df[s][k].idx + 1 \in 1..Len(df[s])
                 /\ agency_df[s][k] = df[s][agency_df[s][k].idx + 1]
            /\ \A k, l \in 1..Len(agency_df[s]) :
                 k < l => agency_df[s][k].idx < agency_df[s][l].idx
            /\ \A i \in 1..Len(df[s]) :
                 df[s][i].Agency = user[s].agency => i - 1 \in Labels(agency_df[s])
            /\ (agency_df[s] = <<>>) <=> (pc[s] = "warning")
            /\ (InCall(s) \/ Ended(s)) => agency_df[s] # <<>>

\* a session sees a proper subset of the table that does not start at ordinal 0
C4_Witness ==
    \E s \in Sessions :
        /\ pc[s] = "editor"
        /\ Len(agency_df[s]) >= 2
        /\ agency_df[s][1].idx > 0

\* the edited copy differs from the snapshot in the Progress of ordinal i only
OnlyProgressChanged(s, i) ==
    /\ Changed(s) = {i}
    /\ \A c \in ColumnSet \ {"Progress"} :
         RowAt(edited_df[s], i)[c] = RowAt(agency_df[s], i)[c]

\* C5: every cell write of a call is addressed to sheet row i + 2 of a visible
\* ordinal i and to column 5, 6, 7 or Last Updated's, every audit row carries
\* a visible ordinal; and when a call in which no store operation failed has
\* ended with only the Progress of ordinal 3 changed, it has made one write to
\* column 7 of sheet row 5 and appended exactly one audit row, for ordinal 3
C5_ProgressOfOrdinal3 ==
    \A s \in Sessions :
        (InCall(s) \/ Ended(s)) =>
            /\ \A w \in Range(writes[s]) :
                 /\ w.row - 2 \in Labels(edited_df[s])
                 /\ w.col \in {5, 6, 7, get_loc("LastUpdated") + 1}
            /\ \A rec \in Range(appended[s]) : rec.idx \in Labels(edited_df[s])
            /\ (Ended(s) /\ err[s] \in {"none", "IndexError"}
                  /\ 3 \in Labels(edited_df[s]) /\ OnlyProgressChanged(s, 3)) =>
                 /\ Cardinality({k \in 1..Len(writes[s]) :
                        writes[s][k] = [row |-> 5, col |-> 7]}) = 1
                 /\ Len(appended[s]) = 1
                 /\ appended[s][1].idx = 3

IsPrefix(p, q) == Len(p) <= Len(q) /\ SubSeq(q, 1, Len(p)) = p

\* C6: every step leaves the rows already in the Audit Log sheet in place and
\* adds at most one row after them
C6_AuditAppendOnly ==
    [][ /\ IsPrefix(audit, audit')
        /\ Len(audit') <= Len(audit) + 1 ]_vars

\* two saves have appended their rows to the sheet, one after the other
C6_Witness ==
    /\ Len(audit) >= 2
    /\ \A s \in Sessions : pc[s] = "saved" /\ Len(appended[s]) = 1

\* C7: when a save has returned, whatever the cache holds was read after the
\* call's writes; the table a session loads after its own successful save is
\* no older than that save's last write; and a load returns a table older
\* than the sheet only from a cache entry younger than the ttl
C7_CacheInvalidatedAfterSave ==
    \A s \in Sessions :
        /\ pc[s] = "saved" => (~cache.valid \/ cache.version >= savedVersion[s])
        /\ pc[s] \in {"editor", "warning"} => loadedVersion[s] >= savedVersion[s]
        /\ staleRead[s].stale => ~staleRead[s].expired

\* a session has loaded the table again after its own successful save, and
\* another session has been served a stale table from the cache
C7_Witness ==
    \E s, t \in Sessions :
        /\ s # t
        /\ savedVersion[s] > 0
        /\ pc[s] = "editor"
        /\ loadedVersion[s] >= savedVersion[s]
        /\ staleRead[t].stale

\* the cell text save_edits writes for a value of an editable column
CellText(c, v) ==
    CASE c = EndDateCol -> FmtEndDate(v)
      [] c = SpendingCol -> FmtSpending(v)
      [] c = ProgressCol -> v

\* the sessions whose returned call changed ordinal i
Savers(i) == {s \in Sessions : pc[s] = "saved" /\ i \in Changed(s)}

\* C8: when at least two sessions that loaded the same table have each
\* completed a save that changed ordinal i, and no other session wrote that
\* row after them, then each of End date, Spending and Progress of the row was
\* written last by one of them and holds the text of that session's edited
\* value; and no save ends in an exception other than the positional lookup's
C8_LastWriteWinsPerField ==
    /\ \A s \in Sessions : pc[s] = "error" => err[s] = "IndexError"
    /\ \A i \in 0..Len(master) - 1 :
         ( /\ Cardinality(Savers(i)) >= 2
           /\ \A s, t \in Savers(i) : df[s] = df[t]
           /\ \A c \in {EndDateCol, SpendingCol, ProgressCol} :
                lastWriter[i + 1][c] \notin Sessions \ Savers(i) ) =>
             \A c \in {EndDateCol, SpendingCol, ProgressCol} :
                 /\ lastWriter[i + 1][c] \in Savers(i)
                 /\ master[i + 1][Columns[c]] =
                      CellText(c, RowAt(edited_df[lastWriter[i + 1][c]], i)[Columns[c]])

\* two sessions changed different fields of the same row of the same table,
\* their writes interleaved, and each has the last write of one field
C8_Witness ==
    \E i \in 0..Len(master) - 1 : \E s, t \in Savers(i) :
        /\ s # t
        /\ df[s] = df[t]
        /\ lastWriter[i + 1][EndDateCol] = s
        /\ lastWriter[i + 1][ProgressCol] = t
        /\ RowAt(edited_df[s], i).EndDate # RowAt(edited_df[t], i).EndDate
        /\ RowAt(edited_df[s], i).Progress # RowAt(edited_df[t], i).Progress

\* C9: when a save_edits call has ended, by returning or by raising, every
\* sheet row it wrote a cell of has an audit row appended by the call
C9_WrittenRowsAudited ==
    \A s \in Sessions :
        Ended(s) =>
            \A w \in Range(writes[s]) :
                \E rec \in Range(appended[s]) : rec.idx = w.row - 2

\* C10: every cell write of a session's save addresses a sheet row whose
\* Agency is the agency the session logged in with, every audit row it
\* appends carries that agency, and a session that is not logged in has
\* written and appended nothing
C10_AgencyIsolation ==
    \A s \in Sessions :
        /\ \A w \in Range(writes[s]) :
             /\ w.row - HeaderRows \in 1..Len(master)
             /\ master[w.row - HeaderRows].Agency = user[s].agency
        /\ \A rec \in Range(appended[s]) : rec.agency = user[s].agency
        /\ ~logged_in[s] => writes[s] = <<>> /\ appended[s] = <<>>

\* a session has written and logged a row while the sheet holds a row of
\* another agency and its edited copy claimed another agency for the row
C10_Witness ==
    \E s \in Sessions :
        /\ appended[s] # <<>>
        /\ \E i \in 1..Len(master) : master[i].Agency # user[s].agency
        /\ \E k \in 1..Len(edited_df[s]) :
             /\ edited_df[s][k].Agency # user[s].agency
             /\ \E w \in Range(writes[s]) : w.row = edited_df[s][k].idx + 2

====
